---- MODULE Spec2Model ----
(***************************************************************************)
(* A model of ComponentBuilder (src/src/component-builder.js): the         *)
(* Definition Store (this.registry), the element registry                  *)
(* (customElements), the serializer (define), the reconstructor            *)
(* (registerFromData), the artifact generators (export) and the element    *)
(* adapter (GeneratedComponent).                                           *)
(*                                                                         *)
(* JavaScript objects are functions from their keys to their values: a key *)
(* that an object does not have is not in its DOMAIN.  Strings that the    *)
(* code inspects by character (names, import sources) are sequences of     *)
(* one-character strings.  Function source text is a sequence of tokens.   *)
(***************************************************************************)
EXTENDS Naturals, Sequences, FiniteSets, TLC

VARIABLES
    config,      \* this.config of the builder
    store,       \* this.registry: name -> component record
    elements,    \* customElements: name -> element class
    exposed,     \* window.<Identifier> globals set by generated scripts
    scriptFile,  \* the generated script most recently saved, <<>> if none
    now,         \* Date.now(), a logical clock
    last,        \* the most recent call and its outcome
    el,          \* one element instance of the rendering target
    str,         \* argument of toPascalCase
    out,         \* result of toPascalCase, <<>> before the call
    peer,        \* a second element instance of the rendering target
    shared       \* the initialState object of the definition, as it is now

vars == <<config, store, elements, exposed, scriptFile, now, last, el, str, out,
          peer, shared>>

-----------------------------------------------------------------------------
(* Bounds of the model.                                                    *)

\* longest string handed to toPascalCase
MaxLen == 4

\* largest value of the logical clock
MaxNow == 1

\* most events delivered to one element instance
MaxEvents == 3

-----------------------------------------------------------------------------
(* Generic helpers.                                                        *)

EmptyObject == <<>>

Has(obj, key) == key \in DOMAIN obj

\* { ...a, ...b }: the keys of b override those of a
Spread(a, b) == b @@ a

RECURSIVE Flatten(_)
Flatten(seqs) ==
    IF seqs = <<>> THEN <<>> ELSE Head(seqs) \o Flatten(Tail(seqs))

\* String.prototype.startsWith on character sequences
StartsWith(s, prefix) ==
    /\ Len(s) >= Len(prefix)
    /\ SubSeq(s, 1, Len(prefix)) = prefix

-----------------------------------------------------------------------------
(* toPascalCase: str.replace(/(^\w|-\w)/g, m => m.replace('-','').toUpperCase()) *)

Alphabet == {"a", "b", "-", "1"}

LowerCase == <<"a","b","c","d","e","f","g","h","i","j","k","l","m",
               "n","o","p","q","r","s","t","u","v","w","x","y","z">>
UpperCase == <<"A","B","C","D","E","F","G","H","I","J","K","L","M",
               "N","O","P","Q","R","S","T","U","V","W","X","Y","Z">>
Digits == {"0","1","2","3","4","5","6","7","8","9"}

IsLower(c) == \E i \in 1..Len(LowerCase) : LowerCase[i] = c
IsUpper(c) == \E i \in 1..Len(UpperCase) : UpperCase[i] = c

\* \w of a JavaScript regular expression: [A-Za-z0-9_]
IsWordChar(c) == IsLower(c) \/ IsUpper(c) \/ c \in Digits \/ c = "_"

\* String.prototype.toUpperCase on one character
ToUpperCase(c) ==
    IF IsLower(c)
    THEN UpperCase[CHOOSE i \in 1..Len(LowerCase) : LowerCase[i] = c]
    ELSE c

RECURSIVE ReplaceFrom(_, _)
\* The global replace, scanning s from position i: at each position the
\* alternatives ^\w and -\w are tried in order, a match is replaced by its
\* upper-cased word character and the scan resumes after the match.
ReplaceFrom(s, i) ==
    IF i > Len(s) THEN <<>>
    ELSE IF i = 1 /\ IsWordChar(s[1])
        THEN <<ToUpperCase(s[1])>> \o ReplaceFrom(s, 2)
    ELSE IF s[i] = "-" /\ i < Len(s) /\ IsWordChar(s[i + 1])
        THEN <<ToUpperCase(s[i + 1])>> \o ReplaceFrom(s, i + 2)
    ELSE <<s[i]>> \o ReplaceFrom(s, i + 1)

toPascalCase(s) == ReplaceFrom(s, 1)

RECURSIVE StringsUpTo(_)
StringsUpTo(n) ==
    IF n = 0 THEN {<<>>}
    ELSE LET shorter == StringsUpTo(n - 1)
         IN  shorter \cup {Append(s, c) : s \in shorter, c \in Alphabet}

\* Component names as character sequences
Chars_my_component == <<"m","y","-","c","o","m","p","o","n","e","n","t">>
Chars_test_component_name ==
    <<"t","e","s","t","-","c","o","m","p","o","n","e","n","t","-","n","a","m","e">>
Chars_simple == <<"s","i","m","p","l","e">>

-----------------------------------------------------------------------------
(* Values.                                                                 *)

\* JavaScript null, printed "null" by string conversion
Null == "<null>"

\* String(v) of a value read from an object, undefined when the key is missing
ToStr(obj, key) ==
    IF ~Has(obj, key) THEN "undefined"
    ELSE IF obj[key] = Null THEN "null"
    ELSE obj[key]

\* Truthiness of a string-or-null value
Truthy(v) == v # "" /\ v # Null

-----------------------------------------------------------------------------
(* Function source text: a sequence of tokens [t, s, v].                   *)

Code(v) == [t |-> "code", s |-> "", v |-> v]
Chars(v) == [t |-> "chars", s |-> "", v |-> v]
Backtick == [t |-> "tick", s |-> "", v |-> "BACKTICK"]
EscapedBacktick == [t |-> "esc", s |-> "", v |-> "BACKSLASH BACKTICK"]
\* the substitution of scope.key in a template literal
Subst(scope, key) == [t |-> "subst", s |-> scope, v |-> key]
\* a substitution opened and never closed
BadSubst == [t |-> "badsubst", s |-> "", v |-> "DOLLAR BRACE"]
Ident(v) == [t |-> "ident", s |-> "", v |-> v]
Keyword(v) == [t |-> "keyword", s |-> "", v |-> v]
ArrowHead == [t |-> "arrow", s |-> "", v |-> "() =>"]
Body(v) == [t |-> "body", s |-> "", v |-> v]
Number(v) == [t |-> "number", s |-> "", v |-> v]

(* A render function is [form, parts]: form is how it was written, parts  *)
(* is the template literal it returns: literal text and substitutions of  *)
(* props.k and state.k.                                                    *)
Lit(v) == [k |-> "lit", v |-> v]
Prop(key) == [k |-> "props", v |-> key]
State(key) == [k |-> "state", v |-> key]

\* template.call(this, props, state): the markup, a sequence of strings
Call(fn, props, state) ==
    [i \in 1..Len(fn.parts) |->
        LET part == fn.parts[i]
        IN  CASE part.k = "lit" -> part.v
              [] part.k = "props" -> ToStr(props, part.v)
              [] part.k = "state" -> ToStr(state, part.v)]

PartSource(part) ==
    IF part.k = "lit" THEN Chars(part.v) ELSE Subst(part.k, part.v)

\* Function.prototype.toString of a render function
FunctionToString(fn) ==
    LET literal == <<Backtick>> \o [i \in 1..Len(fn.parts) |-> PartSource(fn.parts[i])]
                   \o <<Backtick>>
    IN  IF fn.form = "arrow"
        THEN <<Code("(props, state) => ")>> \o literal
        ELSE <<Code("function (props, state) { return ")>> \o literal
             \o <<Code("; }")>>

(* A method is [form, name, effect]: form is "shorthand" (name() {...}),   *)
(* "function" (function () {...}) or "arrow"; effect names what a call     *)
(* does and returns.  A value that is no function has form "value".        *)
Method(form, name, effect) == [form |-> form, name |-> name, effect |-> effect]

Callable(m) == m.form \in {"shorthand", "function", "arrow"}

\* Function.prototype.toString of a method
MethodToString(m) ==
    CASE m.form = "shorthand" ->
            <<Ident(m.name), Code("() {"), Body(m.effect), Code("}")>>
      [] m.form = "function" ->
            <<Keyword("function"), Code("() {"), Body(m.effect), Code("}")>>
      [] m.form = "arrow" -> <<ArrowHead, Body(m.effect)>>

\* serializeMethods(methods)
serializeMethods(methods) ==
    [key \in DOMAIN methods |-> MethodToString(methods[key])]

-----------------------------------------------------------------------------
(* define: the component record of a definition.                           *)

ReservedKeys == {"version", "props", "template", "styles", "methods", "events"}

\* definition.version || '1.0.0' and definition.styles || '': strings
StringOrDefault(definition, key, default) ==
    IF Has(definition, key) /\ Truthy(definition[key])
    THEN definition[key] ELSE default

\* definition.props || [] and definition.events || []: an array is truthy
ArrayOrDefault(definition, key) ==
    IF Has(definition, key) THEN definition[key] ELSE <<>>

\* Object.fromEntries(Object.entries(definition).filter(([k]) => !reserved.includes(k)))
ExtensionFields(definition) ==
    [k \in DOMAIN definition \ ReservedKeys |-> definition[k]]

\* componentDef of define(name, definition) at time t
ComponentDef(name, definition, t) ==
    LET serializedMethods ==
            IF Has(definition, "methods")
            THEN serializeMethods(definition.methods) ELSE EmptyObject
    IN  Spread([name |-> name,
                version |-> StringOrDefault(definition, "version", "1.0.0"),
                props |-> ArrayOrDefault(definition, "props"),
                template |-> FunctionToString(definition.template),
                styles |-> StringOrDefault(definition, "styles", ""),
                methods |-> serializedMethods,
                events |-> ArrayOrDefault(definition, "events"),
                created |-> t],
               ExtensionFields(definition))

-----------------------------------------------------------------------------
(* Errors.                                                                 *)

\* An error: its type, its message, the argument printed in the message and
\* the field of a record it names (no error of the code names one)
Err(type, msg, arg) == [type |-> type, msg |-> msg, arg |-> arg, field |-> ""]
NoError == Err("", "", <<>>)

\* new Error("Component <componentName> not found")
NotFound(componentName) == Err("Error", "Component <name> not found", componentName)
\* new Error('API endpoint not configured')
NotConfigured == Err("Error", "API endpoint not configured", <<>>)
\* what new Function and JSON.parse throw on text they cannot parse
SyntaxErr == Err("SyntaxError", "Unexpected token", <<>>)
\* reading a property of undefined
TypeErr == Err("TypeError", "Cannot read properties of undefined", <<>>)
\* what customElements.define throws on an invalid name
InvalidName == Err("SyntaxError", "not a valid custom element name", <<>>)
\* what a rejected fetch carries
NetworkError == Err("TypeError", "Network error", <<>>)

-----------------------------------------------------------------------------
(* registerFromData: the live definition of a component record.            *)

\* componentData.template.replace of every backtick by an escaped backtick
EscapeBackticks(text) ==
    [i \in 1..Len(text) |-> IF text[i].t = "tick" THEN EscapedBacktick ELSE text[i]]

\* Whether the text, put between backticks, is a template literal
IsTemplateLiteral(text) ==
    \A i \in 1..Len(text) : text[i].t \notin {"tick", "badsubst"}

\* The parts of the template literal made of the text: a substitution stays
\* one, an escaped backtick is a backtick, everything else is literal text
LiteralParts(text) ==
    [i \in 1..Len(text) |->
        CASE text[i].t = "subst" -> [k |-> text[i].s, v |-> text[i].v]
          [] text[i].t = "esc" -> Lit("BACKTICK")
          [] OTHER -> Lit(text[i].v)]

\* new Function('props', 'state', 'return ' + backtick + escaped + backtick)
TemplateFromSource(text) ==
    LET escaped == EscapeBackticks(text)
    IN  IF IsTemplateLiteral(escaped)
        THEN [ok |-> TRUE,
              fn |-> [form |-> "Function", parts |-> LiteralParts(escaped)]]
        ELSE [ok |-> FALSE, fn |-> [form |-> "Function", parts |-> <<>>]]

\* new Function('return ' + text)(): the value of the text as an expression
MethodFromSource(text) ==
    CASE text # <<>> /\ text[1].t = "keyword" /\ Len(text) = 4 ->
            [ok |-> TRUE, fn |-> Method("function", "anonymous", text[3].v)]
      [] text # <<>> /\ text[1].t = "arrow" /\ Len(text) = 2 ->
            [ok |-> TRUE, fn |-> Method("arrow", "anonymous", text[2].v)]
      [] text # <<>> /\ text[1].t = "number" /\ Len(text) = 1 ->
            [ok |-> TRUE, fn |-> Method("value", "", text[1].v)]
      [] OTHER ->
            [ok |-> FALSE, fn |-> Method("value", "", "")]

\* The definition registerFromData builds, or the error it throws before
\* it reaches registerWebComponent
Reconstruct(componentData, options) ==
    IF ~Has(componentData, "template")
    THEN [ok |-> FALSE, error |-> TypeErr, definition |-> EmptyObject]
    ELSE
    LET template == TemplateFromSource(componentData.template)
        copied == [k \in {"props", "styles"} \cap DOMAIN componentData |->
                      componentData[k]]
        definition == Spread(copied @@ [template |-> template.fn,
                                        methods |-> EmptyObject],
                             options)
        sources == IF Has(componentData, "methods")
                   THEN componentData.methods ELSE EmptyObject
        rebuilt == [m \in DOMAIN sources |-> MethodFromSource(sources[m])]
    IN  IF ~template.ok \/ \E m \in DOMAIN rebuilt : ~rebuilt[m].ok
        THEN [ok |-> FALSE, error |-> SyntaxErr, definition |-> EmptyObject]
        ELSE [ok |-> TRUE, error |-> NoError,
              definition |->
                  [definition EXCEPT !.methods =
                      [m \in DOMAIN rebuilt |-> rebuilt[m].fn] @@ @]]

-----------------------------------------------------------------------------
(* The element registry of the rendering target.                           *)

\* A valid custom element name: a lower-case letter first, a hyphen
\* somewhere, no upper-case letter
IsValidCustomElementName(name) ==
    /\ name # <<>>
    /\ IsLower(name[1])
    /\ \E i \in 1..Len(name) : name[i] = "-"
    /\ \A i \in 1..Len(name) : ~IsUpper(name[i])

\* class GeneratedComponent of registerWebComponent: it closes over definition
GeneratedComponent(definition) == [kind |-> "adapter", definition |-> definition]

Put(map, key, value) == [k \in DOMAIN map \cup {key} |->
                            IF k = key THEN value ELSE map[k]]

\* Mutant: the registry check never finds the name
NeverRegistered(registry, name) == FALSE

\* if (customElements.get(name)) return;
AlreadyRegistered(registry, name) == name \in DOMAIN registry

\* Mutant: registration replaces the class of a name already registered
registerAgain(registry, name, definition) ==
    IF ~IsValidCustomElementName(name)
    THEN [threw |-> TRUE, registry |-> registry]
    ELSE [threw |-> FALSE,
          registry |-> Put(registry, name, GeneratedComponent(definition))]

\* registerWebComponent(name, definition) on the element registry: the
\* registry after the call and whether customElements.define threw
registerWebComponent(registry, name, definition) ==
    IF AlreadyRegistered(registry, name)
    THEN [threw |-> FALSE, registry |-> registry]
    ELSE IF ~IsValidCustomElementName(name)
    THEN [threw |-> TRUE, registry |-> registry]
    ELSE [threw |-> FALSE,
          registry |-> Put(registry, name, GeneratedComponent(definition))]

-----------------------------------------------------------------------------
(* Artifact generators.                                                    *)

\* generateMethodsCode(methods): each source text wrapped as  name() { text }
generateMethodsCode(methods) ==
    [name \in DOMAIN methods |->
        <<Ident(name), Code("() {")>> \o methods[name] \o <<Code("}")>>]

\* componentData.props.map(p => p + '="value"'), joined by the caller
SampleAttributes(props) ==
    [i \in 1..Len(props) |-> <<props[i], "=\"value\"">>]

\* Whether generateScript returns: it reads name, props and methods
CanGenerateScript(componentData) ==
    {"name", "props", "methods"} \subseteq DOMAIN componentData

\* generateScript(componentData): the pieces the script text is made of
generateScript(componentData) ==
    [kind |-> "script",
     name |-> componentData.name,
     className |-> toPascalCase(componentData.name),
     observedAttributes |-> componentData.props,
     template |-> IF Has(componentData, "template")
                  THEN componentData.template ELSE <<Ident("undefined")>>,
     styles |-> IF Has(componentData, "styles")
                THEN componentData.styles ELSE "undefined",
     methodsCode |-> generateMethodsCode(componentData.methods),
     usage |-> [name |-> componentData.name,
                sample |-> SampleAttributes(componentData.props)]]

\* generateUsageInstructions(componentName), component being its record
generateUsageInstructions(componentName, component) ==
    [name |-> componentName, sample |-> SampleAttributes(component.props)]

\* A JavaScript identifier, as a class name must be
IsIdentifier(chars) ==
    /\ chars # <<>>
    /\ chars[1] \notin Digits
    /\ \A i \in 1..Len(chars) : IsWordChar(chars[i])

\* Whether source text is an expression:  const template = <text>;
IsExpression(text) ==
    /\ text # <<>>
    /\ text[1].t \in {"code", "keyword", "arrow", "number", "ident"}
    /\ \A i \in 1..Len(text) : text[i].t # "badsubst"
    /\ ~(text[1].t = "ident" /\ Len(text) > 1)

\* Whether source text is a statement list:  name() { <text> }
\* (a function statement needs a name; name() {...} is no statement)
IsStatementList(text) ==
    \/ text = <<>>
    \/ text[1].t \in {"arrow", "number", "body"}

\* Whether the generated script is executable source text
ScriptParses(script) ==
    /\ IsIdentifier(script.className)
    /\ IsExpression(script.template)
    /\ \A m \in DOMAIN script.methodsCode :
           LET code == script.methodsCode[m]
           IN  IsStatementList(SubSeq(code, 3, Len(code) - 1))

\* the class a generated script defines
ScriptClass(script) == [kind |-> "script", script |-> script]

-----------------------------------------------------------------------------
(* The network.                                                            *)

Request(method, endpoint, path, target) ==
    [method |-> method, endpoint |-> endpoint, path |-> path, target |-> target]

\* fetch(url) rejected
Rejected == [kind |-> "rejected", ok |-> FALSE, json |-> FALSE, value |-> EmptyObject]
\* fetch(url) resolved with a response: its ok flag and its body, which is
\* JSON text of a value or not JSON at all
Response(ok, json, value) ==
    [kind |-> "response", ok |-> ok, json |-> json, value |-> value]

\* fetch(...).then(r => r.json()) and response.json(): the parsed body or
\* the error the caller of the await gets
Fetched(response) ==
    IF response.kind = "rejected"
    THEN [ok |-> FALSE, error |-> NetworkError, data |-> EmptyObject]
    ELSE IF ~response.json
    THEN [ok |-> FALSE, error |-> SyntaxErr, data |-> EmptyObject]
    ELSE [ok |-> TRUE, error |-> NoError, data |-> response.value]

\* Mutant: the endpoint is not checked
EndpointAssumed == TRUE

\* !this.config.apiEndpoint
EndpointConfigured == Truthy(config.apiEndpoint)

-----------------------------------------------------------------------------
(* Import sources.  A string source is its characters and what JSON.parse  *)
(* makes of the whole text; an object source is the object.                *)

ObjectSource(record) == [type |-> "object", value |-> record]
\* a string that is no JSON text
PlainString(chars) ==
    [type |-> "string", chars |-> chars, json |-> FALSE, value |-> EmptyObject]
\* JSON.stringify(record)
JsonString(record) ==
    [type |-> "string", chars |-> <<"{">>, json |-> TRUE, value |-> record]
\* text that starts like JSON and is cut short
BrokenJson ==
    [type |-> "string", chars |-> <<"{">>, json |-> FALSE, value |-> EmptyObject]

Http == <<"h", "t", "t", "p">>

\* The branch import takes for a source
ImportBranch(source) ==
    IF source.type = "string"
    THEN IF StartsWith(source.chars, Http) THEN "url"
         ELSE IF StartsWith(source.chars, <<"{">>) THEN "json"
         ELSE "name"
    ELSE "object"

\* componentData of import(source), the requests made to get it, or the
\* error thrown before registerFromData is called
ResolveSource(source, response) ==
    LET branch == ImportBranch(source)
        none == [ok |-> FALSE, error |-> NoError, data |-> EmptyObject,
                 requests |-> <<>>]
    IN  CASE branch = "url" ->
                Fetched(response) @@
                [requests |-> <<Request("GET", "", "", source.chars)>>]
          [] branch = "json" ->
                IF source.json
                THEN [none EXCEPT !.ok = TRUE, !.data = source.value]
                ELSE [none EXCEPT !.error = SyntaxErr]
          [] branch = "name" ->
                IF ~EndpointConfigured
                THEN [none EXCEPT !.error = NotConfigured]
                ELSE Fetched(response) @@
                     [requests |-> <<Request("GET", config.apiEndpoint,
                                             "/components/", source.chars)>>]
          [] OTHER ->
                [none EXCEPT !.ok = TRUE, !.data = source.value]

\* componentData.name, the string "undefined" when the record has none
NameOf(componentData) ==
    IF Has(componentData, "name") THEN componentData.name
    ELSE <<"u","n","d","e","f","i","n","e","d">>

-----------------------------------------------------------------------------
(* The calls.  last records the most recent call: what was called with     *)
(* what, whether it returned or threw, and what it did.                    *)

Outcome(op, name, input, options) ==
    [op |-> op, name |-> name, input |-> input, options |-> options,
     outcome |-> "ok", error |-> NoError, value |-> EmptyObject,
     requests |-> <<>>, response |-> Rejected, warned |-> FALSE,
     \* the call reached the registry check with the name already registered
     reregistered |-> FALSE,
     storeChanged |-> FALSE, elementsChanged |-> FALSE, exposedChanged |-> FALSE,
     \* an instance was in the live tree when the call was made
     withLive |-> FALSE,
     definition |-> EmptyObject]

\* Whether the instance is in the live tree
IsLive == el.ref # "none" /\ el.connected

Threw(result, error) == [result EXCEPT !.outcome = "error", !.error = error]

\* define(name, definition)
Define(name, definition) ==
    LET componentDef == ComponentDef(name, definition, now)
        registered == registerWebComponent(elements, name, definition)
        stored == Put(store, name, componentDef)
        result == [Outcome("define", name, definition, EmptyObject) EXCEPT
                      !.value = componentDef,
                      !.withLive = IsLive,
                      !.reregistered = AlreadyRegistered(elements, name),
                      !.storeChanged = (stored # store),
                      !.elementsChanged = (registered.registry # elements)]
    IN  /\ store' = stored
        /\ elements' = registered.registry
        /\ last' = IF registered.threw THEN Threw(result, InvalidName) ELSE result
        /\ UNCHANGED <<config, exposed, scriptFile, now, el, str, out, peer, shared>>

\* export(componentName, options) past the lookup, component being the
\* record found
ExportFound(componentName, options, response, component) ==
    LET result == Outcome("export", componentName, componentName, options)
        type == IF Has(options, "type") THEN options.type ELSE ""
        exportData == Spread(component, [exportedAt |-> now,
                                         exportOptions |-> options])
    IN  CASE type = "script" ->
                IF CanGenerateScript(exportData)
                THEN [result EXCEPT !.value = generateScript(exportData)]
                ELSE Threw(result, TypeErr)
          [] type = "cloud" ->
                IF ~EndpointConfigured
                THEN Threw(result, NotConfigured)
                ELSE LET sent == [result EXCEPT
                                    !.response = response,
                                    !.requests =
                                        <<Request("POST", config.apiEndpoint,
                                                  "/components", exportData)>>]
                         body == Fetched(response)
                     IN  IF body.ok THEN [sent EXCEPT !.value = body.data]
                         ELSE Threw(sent, body.error)
          [] OTHER ->
                IF Has(component, "props")
                THEN [result EXCEPT !.value =
                        [type |-> "json", data |-> exportData,
                         usage |-> generateUsageInstructions(componentName,
                                                             component)]]
                ELSE Threw(result, TypeErr)

\* Mutant: export goes on with an empty record when the name is unknown
ExportResultUnchecked(componentName, options, response) ==
    ExportFound(componentName, options, response,
                IF componentName \in DOMAIN store
                THEN store[componentName] ELSE EmptyObject)

\* What export(componentName, options) returns or throws, and its requests
ExportResult(componentName, options, response) ==
    IF componentName \notin DOMAIN store
    THEN Threw(Outcome("export", componentName, componentName, options),
               NotFound(componentName))
    ELSE ExportFound(componentName, options, response, store[componentName])

\* export(componentName, options); a script it returns is kept
Export(componentName, options, response) ==
    LET result == ExportResult(componentName, options, response)
    IN  /\ last' = result
        /\ scriptFile' = IF result.outcome = "ok" /\ Has(options, "type")
                            /\ options.type = "script"
                         THEN <<result.value>> ELSE scriptFile
        /\ UNCHANGED <<config, store, elements, exposed, now, el, str, out, peer, shared>>

\* import(source, options), response being what the network answers if asked
Import(source, options, response) ==
    LET resolved == ResolveSource(source, response)
        result == [Outcome("import", <<>>, source, options) EXCEPT
                      !.withLive = IsLive,
                      !.requests = resolved.requests,
                      !.response = IF resolved.requests = <<>>
                                   THEN Rejected ELSE response]
    IN  IF ~resolved.ok
        THEN /\ last' = Threw(result, resolved.error)
             /\ UNCHANGED <<config, store, elements, exposed, scriptFile, now,
                            el, str, out, peer, shared>>
        ELSE
        LET componentData == resolved.data
            rebuilt == Reconstruct(componentData, options)
            name == NameOf(componentData)
            registered == registerWebComponent(elements, name, rebuilt.definition)
            stored == Put(store, name, componentData)
            named == [result EXCEPT !.name = name]
        IN  IF ~rebuilt.ok
            THEN /\ last' = Threw(named, rebuilt.error)
                 /\ UNCHANGED <<config, store, elements, exposed, scriptFile,
                                now, el, str, out, peer, shared>>
            ELSE IF registered.threw
            THEN /\ last' = Threw([named EXCEPT !.definition = rebuilt.definition],
                                  InvalidName)
                 /\ UNCHANGED <<config, store, elements, exposed, scriptFile,
                                now, el, str, out, peer, shared>>
            ELSE /\ elements' = registered.registry
                 /\ store' = stored
                 /\ last' = [named EXCEPT
                               !.value = name,
                               !.definition = rebuilt.definition,
                               !.reregistered = AlreadyRegistered(elements, name),
                               !.storeChanged = (stored # store),
                               !.elementsChanged = (registered.registry # elements)]
                 /\ UNCHANGED <<config, exposed, scriptFile, now, el, str, out, peer, shared>>

\* Running the generated script kept in scriptFile in this context
RunScript ==
    /\ scriptFile # <<>>
    /\ LET script == scriptFile[1]
           result == Outcome("script", script.name, script, EmptyObject)
       IN  IF ~ScriptParses(script)
           THEN /\ last' = Threw(result, SyntaxErr)
                /\ UNCHANGED <<elements, exposed>>
           ELSE IF AlreadyRegistered(elements, script.name)
           THEN /\ last' = [result EXCEPT !.warned = TRUE, !.reregistered = TRUE]
                /\ UNCHANGED <<elements, exposed>>
           ELSE IF ~IsValidCustomElementName(script.name)
           THEN /\ last' = Threw(result, InvalidName)
                /\ UNCHANGED <<elements, exposed>>
           ELSE /\ elements' = Put(elements, script.name, ScriptClass(script))
                /\ exposed' = exposed \cup {script.className}
                /\ last' = [result EXCEPT !.elementsChanged = TRUE,
                               !.exposedChanged = (script.className \notin exposed)]
    /\ UNCHANGED <<config, store, scriptFile, now, el, str, out, peer, shared>>

\* Time passes
Tick ==
    /\ now < MaxNow
    /\ now' = now + 1
    /\ UNCHANGED <<config, store, elements, exposed, scriptFile, last, el, str, out, peer, shared>>

-----------------------------------------------------------------------------
(* The element adapter: one instance of class GeneratedComponent.          *)

\* definition.initialState || {}: the object itself when there is one
InitialStateOf(definition) ==
    IF Has(definition, "initialState") THEN definition.initialState ELSE EmptyObject

\* constructor(): props = {}, state = definition.initialState || {}.  ref
\* tells which object this.state is: the initialState object of the
\* definition, or an object of the instance's own
Construct(definition) ==
    [definition |-> definition,
     attributes |-> EmptyObject,
     props |-> EmptyObject,
     state |-> InitialStateOf(definition),
     ref |-> IF Has(definition, "initialState") THEN "initialState" ELSE "own",
     content |-> <<>>,
     connected |-> FALSE,
     renders |-> 0,
     mountedCalls |-> 0,
     events |-> 0,
     lastEvent |-> [kind |-> "constructed", name |-> "", old |-> Null,
                    new |-> Null]]

\* static get observedAttributes(): definition.props || []
observedAttributes(definition) == ArrayOrDefault(definition, "props")

Observes(definition, name) ==
    \E i \in 1..Len(observedAttributes(definition)) :
        observedAttributes(definition)[i] = name

\* this.getAttribute(name): null when the attribute is missing
getAttribute(inst, name) ==
    IF Has(inst.attributes, name) THEN inst.attributes[name] ELSE Null

\* Mutant: render() writes the markup and leaves out the style block
RenderedMarkupOnly(definition, props, state) ==
    Call(definition.template, props, state)

\* The content render() puts in shadowRoot.innerHTML
Rendered(definition, props, state) ==
    LET html == Call(definition.template, props, state)
        styles == IF Has(definition, "styles") /\ Truthy(definition.styles)
                  THEN <<"<style>", definition.styles, "</style>">> ELSE <<>>
    IN  styles \o html

\* render()
render(inst) ==
    [inst EXCEPT !.content = Rendered(inst.definition, inst.props, inst.state),
                 !.renders = @ + 1]

\* updateProps(): props[prop] = this.getAttribute(prop) || ''
updateProps(inst) ==
    LET observed == observedAttributes(inst.definition)
        names == {observed[i] : i \in 1..Len(observed)}
    IN  [inst EXCEPT !.props =
            [p \in names |-> IF Truthy(getAttribute(inst, p))
                             THEN getAttribute(inst, p) ELSE ""] @@ @]

\* Mutant: setState puts newState in the place of the state
setStateReplacing(inst, newState) ==
    render([inst EXCEPT !.state = newState, !.ref = "own"])

\* setState(newState): state = { ...state, ...newState }, then render()
setState(inst, newState) ==
    render([inst EXCEPT !.state = Spread(@, newState), !.ref = "own"])

\* What a method or hook of the model does when called on an instance
ApplyEffect(inst, effect) ==
    CASE effect = "setState:count" -> setState(inst, [count |-> "1"])
      [] effect = "assign:count" ->
            [inst EXCEPT !.state = Spread(@, [count |-> "9"])]
      [] OTHER -> inst

\* connectedCallback(): updateProps(), render(), then the mounted hook
connectedCallback(inst) ==
    LET drawn == render(updateProps(inst))
    IN  IF Has(inst.definition, "mounted")
        THEN [ApplyEffect(drawn, inst.definition.mounted.effect) EXCEPT
                 !.mountedCalls = @ + 1]
        ELSE drawn

\* Mutant: the callback does not compare the values
AlwaysChanged(oldValue, newValue) == TRUE

\* if (oldValue !== newValue)
ValueChanged(oldValue, newValue) == oldValue # newValue

\* attributeChangedCallback(name, oldValue, newValue)
attributeChangedCallback(inst, name, oldValue, newValue) ==
    IF ValueChanged(oldValue, newValue)
    THEN render([inst EXCEPT !.props = Put(@, name, newValue)])
    ELSE inst

\* The rendering target notifies of every change of an observed attribute
Notify(inst, name, oldValue, newValue) ==
    LET after == IF Observes(inst.definition, name)
                 THEN attributeChangedCallback(inst, name, oldValue, newValue)
                 ELSE inst
    IN  [after EXCEPT !.events = @ + 1,
                      !.lastEvent = [kind |-> "attribute", name |-> name,
                                     old |-> oldValue, new |-> newValue]]

\* No instance: the place of an instance that was never constructed
NoInstance == [ref |-> "none"]

\* The initialState object after a callback ran on inst: what the callback
\* assigned to this.state went to that object if this.state still is it
SharedAfter(inst) == IF inst.ref = "initialState" THEN inst.state ELSE shared

\* What another instance sees: its this.state is the initialState object
\* for as long as it has not replaced it
Seen(inst, object) ==
    IF inst.ref = "initialState" THEN [inst EXCEPT !.state = object] ELSE inst

\* The instance after the rendering target inserted it into the live tree
Inserted(inst) ==
    [connectedCallback(inst) EXCEPT
        !.connected = TRUE,
        !.events = @ + 1,
        !.lastEvent = [kind |-> "connected", name |-> "", old |-> Null, new |-> Null]]

\* The instance after it was taken out of the live tree: the class has no
\* disconnectedCallback
Removed(inst) ==
    [inst EXCEPT
        !.connected = FALSE,
        !.events = @ + 1,
        !.lastEvent = [kind |-> "disconnected", name |-> "", old |-> Null, new |-> Null]]

\* The instance after setAttribute(name, value)
WithAttribute(inst, name, value) ==
    Notify([inst EXCEPT !.attributes = Put(@, name, value)],
           name, getAttribute(inst, name), value)

\* The instance after removeAttribute(name)
WithoutAttribute(inst, name) ==
    Notify([inst EXCEPT !.attributes = [a \in DOMAIN @ \ {name} |-> @[a]]],
           name, getAttribute(inst, name), Null)

\* Whether the instance has a method of that name to call
HasMethod(inst, methodName) ==
    /\ Has(inst.definition, "methods")
    /\ Has(inst.definition.methods, methodName)
    /\ Callable(inst.definition.methods[methodName])

\* The instance after instance[methodName]() returned
Invoked(inst, methodName) ==
    [ApplyEffect(inst, inst.definition.methods[methodName].effect) EXCEPT
        !.events = @ + 1,
        !.lastEvent = [kind |-> "method", name |-> methodName,
                       old |-> Null, new |-> Null]]

\* The instance after instance.setState(newState) returned
Updated(inst, newState) ==
    [setState(inst, newState) EXCEPT
        !.events = @ + 1,
        !.lastEvent = [kind |-> "setState", name |-> "", old |-> Null,
                       new |-> newState]]

\* The instance is inserted into the live tree
Connect ==
    /\ el.events < MaxEvents
    /\ ~el.connected
    /\ el' = Inserted(el)
    /\ shared' = SharedAfter(el')
    /\ peer' = Seen(peer, shared')
    /\ UNCHANGED <<config, store, elements, exposed, scriptFile, now, last, str, out>>

\* The instance is taken out of the live tree
Disconnect ==
    /\ el.events < MaxEvents
    /\ el.connected
    /\ el' = Removed(el)
    /\ UNCHANGED <<config, store, elements, exposed, scriptFile, now, last, str, out, peer, shared>>

\* setAttribute(name, value) on the instance
SetAttribute(name, value) ==
    /\ el.events < MaxEvents
    /\ el' = WithAttribute(el, name, value)
    /\ UNCHANGED <<config, store, elements, exposed, scriptFile, now, last, str, out, peer, shared>>

\* removeAttribute(name) on the instance
RemoveAttribute(name) ==
    /\ el.events < MaxEvents
    /\ Has(el.attributes, name)
    /\ el' = WithoutAttribute(el, name)
    /\ UNCHANGED <<config, store, elements, exposed, scriptFile, now, last, str, out, peer, shared>>

\* A method of the definition is called on the instance
CallMethod(methodName) ==
    /\ el.events < MaxEvents
    /\ HasMethod(el, methodName)
    /\ el' = Invoked(el, methodName)
    /\ shared' = SharedAfter(el')
    /\ peer' = Seen(peer, shared')
    /\ UNCHANGED <<config, store, elements, exposed, scriptFile, now, last, str, out>>

\* The page calls setState(newState) on the instance
SetState(newState) ==
    /\ el.events < MaxEvents
    /\ el' = Updated(el, newState)
    /\ UNCHANGED <<config, store, elements, exposed, scriptFile, now, last, str, out, peer, shared>>

-----------------------------------------------------------------------------
(* The element class of a generated script.  Its text is the adapter's     *)
(* class written out for one record: the same callbacks, with the template *)
(* source and the method sources pasted in, this.state = {} in the         *)
(* constructor, no mounted hook and no setState.  An instance of it is the *)
(* adapter instance of the definition that this text amounts to.           *)

\* const template = <text>: the function the source text evaluates to
FunctionFromSource(text) ==
    LET n == Len(text)
        part(i) == IF text[i].t = "subst"
                   THEN [k |-> text[i].s, v |-> text[i].v] ELSE Lit(text[i].v)
    IN  IF n >= 3 /\ text[1] = Code("(props, state) => ")
        THEN [form |-> "arrow", parts |-> [i \in 1..(n - 3) |-> part(i + 2)]]
        ELSE IF n >= 4 /\ text[1] = Code("function (props, state) { return ")
        THEN [form |-> "function", parts |-> [i \in 1..(n - 4) |-> part(i + 2)]]
        ELSE [form |-> "value", parts |-> <<>>]

\* name() { <text> }: what a call of the method does.  A function source
\* pasted as the body is an expression that is evaluated and dropped; the
\* class has no setState for a body to call
ScriptMethod(name, code) ==
    LET text == SubSeq(code, 3, Len(code) - 1)
    IN  Method("shorthand", name,
               IF text # <<>> /\ text[1].t = "body"
               THEN IF text[1].v = "setState:count"
                    THEN "throw:TypeError" ELSE text[1].v
               ELSE "none")

\* The definition the class text of the script amounts to
ScriptDefinition(script) ==
    [props |-> script.observedAttributes,
     template |-> FunctionFromSource(script.template),
     styles |-> script.styles,
     methods |-> [m \in DOMAIN script.methodsCode |->
                     ScriptMethod(m, script.methodsCode[m])]]

\* new of the class the script registers, if the script runs at all
ScriptInstance(script) ==
    IF ScriptParses(script) THEN Construct(ScriptDefinition(script)) ELSE NoInstance

-----------------------------------------------------------------------------
(* Inputs.                                                                 *)

\* 'x-a', a valid custom element name
NameA == <<"x", "-", "a">>
\* 'http-c', a valid custom element name that starts with the letters http
NameH == <<"h", "t", "t", "p", "-", "c">>
\* 'https://h/c', a URL
UrlHttps == <<"h", "t", "t", "p", "s", ":", "/", "/", "h", "/", "c">>
\* 'ftp://h/c', a URL of another scheme
UrlFtp == <<"f", "t", "p", ":", "/", "/", "h", "/", "c">>

\* (props, state) => <p>hi</p>
TemplatePlain == [form |-> "arrow", parts |-> <<Lit("<p>hi</p>")>>]
\* (props, state) => <h1>(props.title)</h1>
TemplateTitle ==
    [form |-> "arrow", parts |-> <<Lit("<h1>"), Prop("title"), Lit("</h1>")>>]
\* function (props, state) { return <b>(props.step)(state.count)</b> }
TemplateCount ==
    [form |-> "function",
     parts |-> <<Lit("<b>"), Prop("step"), State("count"), Lit("</b>")>>]

\* a definition with only a template (tests/setup.js, 'should use default values')
DefMinimal == [template |-> TemplatePlain]
\* a definition with every field, its method a function expression
DefFull ==
    [version |-> "2.0.0", props |-> <<"title">>, template |-> TemplateTitle,
     styles |-> "h1{}", events |-> <<"done">>,
     methods |-> [greet |-> Method("function", "greet", "return:hi")]]
\* the counter of README.md: shorthand methods, initialState, mounted
DefCounter ==
    [props |-> <<"step">>, template |-> TemplateCount,
     methods |-> [increment |-> Method("shorthand", "increment", "setState:count")],
     initialState |-> [count |-> "0"],
     mounted |-> Method("shorthand", "mounted", "assign:count")]

Definitions == {DefFull, DefCounter}

\* A record written by hand, as in tests/setup.js 'should import from object'
RecordGood ==
    [name |-> NameA, version |-> "1.0.0", props |-> <<"title">>,
     template |-> FunctionToString(TemplateTitle), styles |-> "",
     methods |-> EmptyObject, events |-> <<>>, created |-> 0]
\* its template is markup, no function source
RecordMarkup == [RecordGood EXCEPT !.template = <<Chars("<p>hello</p>")>>]
\* its template opens a substitution and never closes it
RecordUnclosed == [RecordGood EXCEPT !.template = <<Chars("<p>"), BadSubst>>]
\* its method run is the text 42
RecordNumber == [RecordGood EXCEPT !.methods = [run |-> <<Number("42")>>]]
\* its method run is not an expression
RecordGarbage == [RecordGood EXCEPT !.methods = [run |-> <<Code("}{")>>]]

ExternalRecords ==
    {RecordGood, RecordMarkup, RecordUnclosed, RecordNumber, RecordGarbage}

\* The body of an error response
ErrorBody == [error |-> "not found"]

Responses ==
    {Rejected,
     Response(TRUE, TRUE, RecordGood),
     Response(FALSE, TRUE, RecordGood),
     Response(FALSE, TRUE, ErrorBody),
     Response(FALSE, FALSE, EmptyObject)}

ExportOptions ==
    {EmptyObject, [type |-> "json"], [type |-> "script"], [type |-> "cloud"]}

ImportOptions == {EmptyObject}

\* new ComponentBuilder(options): this.config
Constructor(options) ==
    Spread([apiEndpoint |-> IF Has(options, "apiEndpoint")
                               /\ Truthy(options.apiEndpoint)
                            THEN options.apiEndpoint ELSE Null,
            localRegistry |-> TRUE],
           options)

BuilderOptions == {EmptyObject, [apiEndpoint |-> "https://api.example.com"]}

\* The record the previous call returned, if it was a define
ReturnedRecords == IF last.op = "define" THEN {last.value} ELSE {}

ImportSources ==
    {ObjectSource(r) : r \in ReturnedRecords \cup ExternalRecords}
    \cup {JsonString(RecordGood), BrokenJson}
    \cup {PlainString(c) : c \in {NameA, NameH, UrlHttps, UrlFtp}}

-----------------------------------------------------------------------------
(* The builder: define, export, import and generated scripts in one        *)
(* context.                                                                *)

Idle == Outcome("none", <<>>, EmptyObject, EmptyObject)

Init ==
    /\ config \in {Constructor(o) : o \in BuilderOptions}
    /\ store = EmptyObject
    /\ elements = EmptyObject
    /\ exposed = {}
    /\ scriptFile = <<>>
    /\ now = 0
    /\ last = Idle
    /\ el = Construct(DefMinimal)
    /\ str = <<>>
    /\ out = <<>>
    /\ peer = NoInstance
    /\ shared = EmptyObject

\* The answers of the network that a call can tell apart: all of them when
\* the call makes a request, one when it makes none
ExportAnswers(componentName, options) ==
    IF ExportResult(componentName, options, Rejected).requests # <<>>
    THEN Responses ELSE {Rejected}

ImportAnswers(source) ==
    IF ResolveSource(source, Rejected).requests # <<>>
    THEN Responses ELSE {Rejected}

DefineStep == \E d \in Definitions : Define(NameA, d)

ExportStep ==
    \E n \in {NameA, NameH}, o \in ExportOptions :
        \E r \in ExportAnswers(n, o) : Export(n, o, r)

ImportStep ==
    \E s \in ImportSources, o \in ImportOptions :
        \E r \in ImportAnswers(s) : Import(s, o, r)

Next ==
    \/ DefineStep
    \/ ExportStep
    \/ ImportStep
    \/ RunScript

Spec == Init /\ [][Next]_vars

-----------------------------------------------------------------------------
(* toPascalCase applied to every string of the alphabet up to MaxLen and   *)
(* to the names of tests/setup.js.                                         *)

PascalInputs ==
    StringsUpTo(MaxLen)
    \cup {Chars_my_component, Chars_test_component_name, Chars_simple}

InitPascal ==
    /\ config = Constructor(EmptyObject)
    /\ store = EmptyObject
    /\ elements = EmptyObject
    /\ exposed = {}
    /\ scriptFile = <<>>
    /\ now = 0
    /\ last = Idle
    /\ el = Construct(DefMinimal)
    /\ str \in PascalInputs
    /\ out = <<>>
    /\ peer = NoInstance
    /\ shared = EmptyObject

\* builder.toPascalCase(str)
ToPascalCaseCall ==
    /\ out = <<>>
    /\ out' = <<toPascalCase(str)>>
    /\ UNCHANGED <<config, store, elements, exposed, scriptFile, now, last, el, str, peer, shared>>

SpecPascal == InitPascal /\ [][ToPascalCaseCall]_vars

-----------------------------------------------------------------------------
(* define applied to definitions that supply or leave out each field, as   *)
(* time passes.                                                            *)

\* one field of a definition, left out or supplied with each of the values
Field(key, values) == {EmptyObject} \cup {[k \in {key} |-> v] : v \in values}

AllDefinitions ==
    {[template |-> TemplateTitle] @@ v @@ p @@ s @@ m @@ e :
        v \in Field("version", {"", "2.0.0"}),
        p \in Field("props", {<<"title">>}),
        s \in Field("styles", {"h1{}"}),
        m \in Field("methods", {[greet |-> Method("function", "greet", "return:hi")]}),
        e \in Field("events", {<<"done">>})}

InitDefine ==
    /\ config = Constructor(EmptyObject)
    /\ store = EmptyObject
    /\ elements = EmptyObject
    /\ exposed = {}
    /\ scriptFile = <<>>
    /\ now = 0
    /\ last = Idle
    /\ el = Construct(DefMinimal)
    /\ str = <<>>
    /\ out = <<>>
    /\ peer = NoInstance
    /\ shared = EmptyObject

DefineAny == \E d \in AllDefinitions : Define(NameA, d)

NextDefine == DefineAny \/ Tick

SpecDefine == InitDefine /\ [][NextDefine]_vars

-----------------------------------------------------------------------------
(* One element instance of a registered class and the events the rendering *)
(* target and the page deliver to it.                                      *)

\* The definitions a class is made of: given to define, or rebuilt by import
ElementDefinitions ==
    {DefFull, DefCounter, Reconstruct(RecordGood, EmptyObject).definition}

AttributeNames == {"title", "step", "id"}
AttributeValues == {"", "A", "B"}
MethodNames == {"greet", "increment"}

InitElement ==
    /\ config = Constructor(EmptyObject)
    /\ store = EmptyObject
    /\ elements = EmptyObject
    /\ exposed = {}
    /\ scriptFile = <<>>
    /\ now = 0
    /\ last = Idle
    /\ el \in {Construct(d) : d \in ElementDefinitions}
    /\ str = <<>>
    /\ out = <<>>
    /\ peer = NoInstance
    /\ shared = InitialStateOf(el.definition)

SetAnyAttribute == \E n \in AttributeNames, v \in AttributeValues : SetAttribute(n, v)
RemoveAnyAttribute == \E n \in AttributeNames : RemoveAttribute(n)
CallAnyMethod == \E m \in MethodNames : CallMethod(m)
PartialStates == {EmptyObject, [count |-> "2"], [label |-> "x"]}
SetAnyState == \E partial \in PartialStates : SetState(partial)

NextElement ==
    \/ Connect
    \/ Disconnect
    \/ SetAnyAttribute
    \/ RemoveAnyAttribute
    \/ CallAnyMethod
    \/ SetAnyState

SpecElement == InitElement /\ [][NextElement]_vars

-----------------------------------------------------------------------------
(* An instance of the adapter's class for a definition and an instance of  *)
(* the class that the script exported for the same definition registers in *)
(* a fresh context, both given the same events.                            *)

\* a definition with props and styles and nothing else
DefTitle == [props |-> <<"title">>, template |-> TemplateTitle, styles |-> "h1{}"]
\* the same with a method written as an arrow function
DefArrow ==
    [props |-> <<"title">>, template |-> TemplateTitle, styles |-> "h1{}",
     methods |-> [greet |-> Method("arrow", "greet", "return:hi")]]
\* a definition with an initialState that its template shows
DefState ==
    [props |-> <<"step">>, template |-> TemplateCount,
     initialState |-> [count |-> "0"]]

\* export(name, {type: 'script'}) right after define(name, definition)
ScriptOf(name, definition) ==
    generateScript(Spread(ComponentDef(name, definition, 0),
                          [exportedAt |-> 0,
                           exportOptions |-> [type |-> "script"]]))

InitScript ==
    /\ config = Constructor(EmptyObject)
    /\ store = EmptyObject
    /\ elements = EmptyObject
    /\ exposed = {}
    /\ now = 0
    /\ last = Idle
    /\ str = <<>>
    /\ out = <<>>
    /\ \E d \in {DefTitle, DefArrow, DefState, DefCounter} :
           /\ el = Construct(d)
           /\ shared = InitialStateOf(d)
           /\ scriptFile = <<ScriptOf(NameA, d)>>
           /\ peer = ScriptInstance(ScriptOf(NameA, d))

\* Both instances are inserted
BothConnect ==
    /\ el.events < MaxEvents
    /\ ~el.connected
    /\ el' = Inserted(el)
    /\ shared' = SharedAfter(el')
    /\ peer' = IF peer.ref = "none" THEN peer ELSE Inserted(peer)
    /\ UNCHANGED <<config, store, elements, exposed, scriptFile, now, last, str, out>>

\* setAttribute(name, value) on both
BothSetAttribute ==
    \E name \in AttributeNames, value \in AttributeValues :
        /\ el.events < MaxEvents
        /\ el' = WithAttribute(el, name, value)
        /\ peer' = IF peer.ref = "none" THEN peer
                   ELSE WithAttribute(peer, name, value)
        /\ UNCHANGED <<config, store, elements, exposed, scriptFile, now, last,
                       str, out, shared>>

\* removeAttribute(name) on both
BothRemoveAttribute ==
    \E name \in AttributeNames :
        /\ el.events < MaxEvents
        /\ Has(el.attributes, name)
        /\ el' = WithoutAttribute(el, name)
        /\ peer' = IF peer.ref = "none" THEN peer ELSE WithoutAttribute(peer, name)
        /\ UNCHANGED <<config, store, elements, exposed, scriptFile, now, last,
                       str, out, shared>>

\* A method of the definition is called on both
BothCallMethod ==
    \E methodName \in MethodNames :
        /\ el.events < MaxEvents
        /\ HasMethod(el, methodName)
        /\ el' = Invoked(el, methodName)
        /\ shared' = SharedAfter(el')
        /\ peer' = IF peer.ref # "none" /\ HasMethod(peer, methodName)
                   THEN Invoked(peer, methodName) ELSE peer
        /\ UNCHANGED <<config, store, elements, exposed, scriptFile, now, last,
                       str, out>>

NextScript ==
    \/ BothConnect
    \/ BothSetAttribute
    \/ BothRemoveAttribute
    \/ BothCallMethod

SpecScript == InitScript /\ [][NextScript]_vars

-----------------------------------------------------------------------------
(* A live element of a registered name while the builder goes on defining  *)
(* and importing under that name.                                          *)

InitLive ==
    /\ config = Constructor(EmptyObject)
    /\ store = EmptyObject
    /\ elements = EmptyObject
    /\ exposed = {}
    /\ scriptFile = <<>>
    /\ now = 0
    /\ last = Idle
    /\ el = NoInstance
    /\ str = <<>>
    /\ out = <<>>
    /\ peer = NoInstance
    /\ shared = EmptyObject

\* document.createElement(name): an instance of the class registered under
\* the name; tag is the name it was created under
CreateElement(name) ==
    /\ el.ref = "none"
    /\ name \in DOMAIN elements
    /\ elements[name].kind = "adapter"
    /\ el' = [tag |-> name] @@ Construct(elements[name].definition)
    /\ shared' = InitialStateOf(elements[name].definition)
    /\ UNCHANGED <<config, store, elements, exposed, scriptFile, now, last, str,
                   out, peer>>

LiveDefine == \E d \in {DefTitle, DefCounter} : Define(NameA, d)

LiveImport == Import(ObjectSource(RecordGood), EmptyObject, Rejected)

LiveConnect == el.ref # "none" /\ Connect

LiveSetAttribute ==
    /\ el.ref # "none"
    /\ \E n \in {"title", "step"}, v \in {"A", "B"} : SetAttribute(n, v)

LiveCallMethod == el.ref # "none" /\ CallAnyMethod

NextLive ==
    \/ LiveDefine
    \/ LiveImport
    \/ CreateElement(NameA)
    \/ LiveConnect
    \/ LiveSetAttribute
    \/ LiveCallMethod

SpecLive == InitLive /\ [][NextLive]_vars

-----------------------------------------------------------------------------
(* The Definition Store under define and import of definitions and records *)
(* of every shape the code accepts, and document exports of what it holds. *)

\* 'xa', no custom element name: it has no hyphen
NameBad == <<"x", "a">>

\* definitions with keys beyond the six that define reads
StoreDefinitions ==
    {DefMinimal, DefTitle,
     [template |-> TemplatePlain, author |-> "me"],
     [template |-> TemplatePlain, name |-> NameH],
     [template |-> TemplatePlain, created |-> 7]}

\* a record with a name and a template and nothing else
RecordBare == [name |-> NameH, template |-> FunctionToString(TemplatePlain)]
\* a record whose name is no custom element name
RecordBadName == [RecordGood EXCEPT !.name = NameBad]

DefineNamed == \E n \in {NameA, NameBad}, d \in StoreDefinitions : Define(n, d)

ImportRecord ==
    \E r \in {RecordGood, RecordBare, RecordBadName} \cup ReturnedRecords :
        Import(ObjectSource(r), EmptyObject, Rejected)

ExportDocument ==
    \E n \in {NameA, NameH, NameBad}, o \in {EmptyObject, [type |-> "json"]} :
        Export(n, o, Rejected)

NextStore ==
    \/ DefineNamed
    \/ ImportRecord
    \/ ExportDocument

SpecStore == InitLive /\ [][NextStore]_vars

-----------------------------------------------------------------------------
(* Two instances of the class of one definition, the second constructed    *)
(* at any time, and the initialState object of that definition.            *)

InitIsolation ==
    /\ config = Constructor(EmptyObject)
    /\ store = EmptyObject
    /\ elements = EmptyObject
    /\ exposed = {}
    /\ scriptFile = <<>>
    /\ now = 0
    /\ last = Idle
    /\ el \in {Construct(d) : d \in {DefCounter, DefState}}
    /\ str = <<>>
    /\ out = <<>>
    /\ peer = NoInstance
    /\ shared = InitialStateOf(el.definition)

\* new of the same class, later: the constructor reads definition.initialState
\* as it is then
ConstructPeer ==
    /\ peer.ref = "none"
    /\ peer' = Seen(Construct(el.definition), shared)
    /\ UNCHANGED <<config, store, elements, exposed, scriptFile, now, last, el,
                   str, out, shared>>

\* The second instance is inserted into the live tree
PeerConnect ==
    /\ peer.ref # "none"
    /\ peer.events < MaxEvents
    /\ ~peer.connected
    /\ peer' = Inserted(peer)
    /\ shared' = SharedAfter(peer')
    /\ el' = Seen(el, shared')
    /\ UNCHANGED <<config, store, elements, exposed, scriptFile, now, last, str, out>>

\* A method of the definition is called on the second instance
PeerCallMethod ==
    \E methodName \in MethodNames :
        /\ peer.ref # "none"
        /\ peer.events < MaxEvents
        /\ HasMethod(peer, methodName)
        /\ peer' = Invoked(peer, methodName)
        /\ shared' = SharedAfter(peer')
        /\ el' = Seen(el, shared')
        /\ UNCHANGED <<config, store, elements, exposed, scriptFile, now, last,
                       str, out>>

\* The page calls setState on the second instance
PeerSetState ==
    \E partial \in PartialStates :
        /\ peer.ref # "none"
        /\ peer.events < MaxEvents
        /\ peer' = Updated(peer, partial)
        /\ UNCHANGED <<config, store, elements, exposed, scriptFile, now, last,
                       el, str, out, shared>>

NextIsolation ==
    \/ Connect
    \/ CallAnyMethod
    \/ SetAnyState
    \/ ConstructPeer
    \/ PeerConnect
    \/ PeerCallMethod
    \/ PeerSetState

SpecIsolation == InitIsolation /\ [][NextIsolation]_vars

-----------------------------------------------------------------------------
(* Claims.                                                                 *)

SampleProps == {EmptyObject, [title |-> "A"], [title |-> "B", step |-> "2"]}
SampleStates == {EmptyObject, [count |-> "1"]}

MethodsOf(definition) ==
    IF Has(definition, "methods") THEN definition.methods ELSE EmptyObject

\* The rebuilt definition renders what d renders and its methods do what the
\* methods of d do
SameBehaviour(rebuilt, d) ==
    /\ \A p \in SampleProps, s \in SampleStates :
           Call(rebuilt.template, p, s) = Call(d.template, p, s)
    /\ DOMAIN MethodsOf(rebuilt) = DOMAIN MethodsOf(d)
    /\ \A m \in DOMAIN MethodsOf(d) :
           /\ Callable(rebuilt.methods[m])
           /\ rebuilt.methods[m].effect = d.methods[m].effect

\* C1: importing the record that define(name, D) returned succeeds and yields
\* a definition whose template renders the same string as D's for the same
\* (props, state) and whose methods do the same as D's.
C1_RoundTrip ==
    \A d \in Definitions :
        (/\ last.op = "import"
         /\ last.input = ObjectSource(ComponentDef(NameA, d, now)))
        => (last.outcome = "ok" /\ SameBehaviour(last.definition, d))

\* C2: a name bound in the element registry stays bound to the same class
\* through every call; a call that reaches the registration of a name already
\* bound leaves the registry and the window globals as they were, throws
\* nothing, and logs a warning at most (only a generated script does).
C2_RegistryPermanence ==
    [][/\ \A n \in DOMAIN elements :
              n \in DOMAIN elements' /\ elements'[n] = elements[n]
       /\ last'.reregistered =>
              /\ elements' = elements
              /\ exposed' = exposed
              /\ last'.outcome = "ok"
              /\ last'.warned => last'.op = "script"]_vars

\* C2 witness: a generated script was run for a name already registered and
\* only warned
C2_Witness ==
    /\ last.op = "script"
    /\ last.reregistered
    /\ last.warned
    /\ last.outcome = "ok"

\* Function source text that evaluates to a callable of (props, state): an
\* arrow function or a function expression returning a template literal
IsFunctionSource(text) ==
    LET n == Len(text)
        literal(from, to) ==
            /\ from < to
            /\ text[from].t = "tick"
            /\ text[to].t = "tick"
            /\ \A i \in (from + 1)..(to - 1) : text[i].t \in {"chars", "subst"}
    IN  /\ n >= 3
        /\ text[1].t = "code"
        /\ \/ text[1] = Code("(props, state) => ") /\ literal(2, n)
           \/ /\ text[1] = Code("function (props, state) { return ")
              /\ text[n] = Code("; }")
              /\ literal(2, n - 1)

\* The fields of a record whose source text is no function source
MalformedFields(record) ==
    (IF Has(record, "template") /\ IsFunctionSource(record.template)
     THEN {} ELSE {"template"})
    \cup {m \in DOMAIN MethodsOf(record) :
             \/ ~MethodFromSource(record.methods[m]).ok
             \/ ~Callable(MethodFromSource(record.methods[m]).fn)}

\* The record an import source holds, for the sources that hold one
HeldRecord(source) == source.value

HoldsRecord(source) == source.type = "object" \/ source.json

\* C3: import of a record whose template or some method is not function
\* source fails with an error naming the failing field, and changes neither
\* the Definition Store nor the element registry.
C3_MalformedImport ==
    (/\ last.op = "import"
     /\ HoldsRecord(last.input)
     /\ MalformedFields(HeldRecord(last.input)) # {})
    => (/\ last.outcome = "error"
        /\ last.error.field \in MalformedFields(HeldRecord(last.input))
        /\ ~last.storeChanged
        /\ ~last.elementsChanged)

\* C4: export of a name absent from the Definition Store, with any type and
\* any configuration, throws the not-found error carrying the name, makes no
\* request and leaves the Definition Store as it was.
C4_ExportUnknown ==
    [][(last'.op = "export" /\ last'.name \notin DOMAIN store)
       => (/\ last'.outcome = "error"
           /\ last'.error = NotFound(last'.name)
           /\ last'.requests = <<>>
           /\ store' = store)]_vars

\* C4 witness: a cloud export of an unknown name was refused with the
\* endpoint configured
C4_Witness ==
    /\ last.op = "export"
    /\ last.name \notin DOMAIN store
    /\ Has(last.options, "type") /\ last.options.type = "cloud"
    /\ EndpointConfigured
    /\ last.error = NotFound(NameH)

\* C5: with no apiEndpoint, a cloud export of a defined name and an import
\* of a string looked up by name throw the configuration error, make no
\* request, and change neither the Definition Store nor the element registry.
C5_MissingEndpoint ==
    [][(/\ ~Truthy(config.apiEndpoint)
        /\ \/ /\ last'.op = "export"
              /\ last'.name \in DOMAIN store
              /\ Has(last'.options, "type") /\ last'.options.type = "cloud"
           \/ /\ last'.op = "import"
              /\ ImportBranch(last'.input) = "name")
       => (/\ last'.outcome = "error"
           /\ last'.error = NotConfigured
           /\ last'.requests = <<>>
           /\ store' = store
           /\ elements' = elements)]_vars

\* C5 witness: a cloud export of a defined name was refused for want of an
\* endpoint
C5_Witness ==
    /\ ~Truthy(config.apiEndpoint)
    /\ last.op = "export"
    /\ last.name \in DOMAIN store
    /\ Has(last.options, "type") /\ last.options.type = "cloud"
    /\ last.error = NotConfigured

\* A string that begins with a URL scheme: letters, then a colon
HasUrlScheme(chars) ==
    \E i \in 2..Len(chars) :
        /\ chars[i] = ":"
        /\ \A j \in 1..(i - 1) : IsLower(chars[j])

\* The variant of a source by the four-way classification
SourceVariant(source) ==
    IF source.type # "string" THEN "object"
    ELSE IF HasUrlScheme(source.chars) THEN "url"
    ELSE IF StartsWith(source.chars, <<"{">>) THEN "json"
    ELSE "name"

\* The requests import makes for a source of each variant
VariantRequests(source) ==
    CASE SourceVariant(source) = "url" ->
            <<Request("GET", "", "", source.chars)>>
      [] SourceVariant(source) = "name" /\ Truthy(config.apiEndpoint) ->
            <<Request("GET", config.apiEndpoint, "/components/", source.chars)>>
      [] OTHER -> <<>>

\* C6: import makes the requests of the variant of its source: none for an
\* object or a JSON string, one plain GET for a URL, one GET of
\* <endpoint>/components/<name> for any other string.
C6_SourceResolution ==
    last.op = "import" => last.requests = VariantRequests(last.input)

\* C7: on a connected instance, a notification for an observed attribute
\* whose new value differs from the old sets the prop to the new value and
\* renders once, the content being the template applied to the new props;
\* one whose values are equal changes no prop and renders nothing.
C7_AttributeChange ==
    [][(/\ el.connected
        /\ el'.events = el.events + 1
        /\ el'.lastEvent.kind = "attribute"
        /\ Observes(el.definition, el'.lastEvent.name))
       => LET e == el'.lastEvent
              props == Put(el.props, e.name, e.new)
          IN  IF e.old # e.new
              THEN /\ el'.props = props
                   /\ el'.renders = el.renders + 1
                   /\ el'.content = Rendered(el.definition, props, el.state)
              ELSE /\ el'.props = el.props
                   /\ el'.renders = el.renders
                   /\ el'.content = el.content]_vars

\* C7 witness: a connected instance showing title A was told title is now B
\* and shows B
C7_Witness ==
    /\ el.connected
    /\ el.lastEvent = [kind |-> "attribute", name |-> "title",
                       old |-> "A", new |-> "B"]
    /\ el.props.title = "B"
    /\ \E i \in 1..Len(el.content) : el.content[i] = "B"

\* C8: an import whose request fails or is answered with a non-success
\* response is rejected to its caller, changes neither the Definition Store
\* nor the element registry, and made exactly one request.  (The code has
\* no transport error type: any error the call throws counts as one.)
C8_TransportFailure ==
    (/\ last.op = "import"
     /\ last.requests # <<>>
     /\ (last.response.kind = "rejected" \/ ~last.response.ok))
    => (/\ last.outcome = "error"
        /\ ~last.storeChanged
        /\ ~last.elementsChanged
        /\ Len(last.requests) = 1)

RECURSIVE SplitOn(_, _)
\* Reference: the segments of s between occurrences of sep
SplitOn(s, sep) ==
    IF \A i \in 1..Len(s) : s[i] # sep THEN <<s>>
    ELSE LET k == CHOOSE i \in 1..Len(s) :
                      s[i] = sep /\ \A j \in 1..(i - 1) : s[j] # sep
         IN  <<SubSeq(s, 1, k - 1)>> \o SplitOn(SubSeq(s, k + 1, Len(s)), sep)

Capitalize(seg) ==
    IF seg = <<>> THEN <<>> ELSE <<ToUpperCase(Head(seg))>> \o Tail(seg)

\* Reference: split on hyphens, upper-case each segment's first letter, concatenate
PascalReference(s) ==
    LET segs == SplitOn(s, "-")
    IN  Flatten([i \in 1..Len(segs) |-> Capitalize(segs[i])])

\* C9: toPascalCase(name) is the reference result (split on hyphens,
\* capitalize each segment, concatenate) and contains no hyphen.
C9_PascalCase ==
    out # <<>> =>
        /\ out[1] = PascalReference(str)
        /\ \A i \in 1..Len(out[1]) : out[1][i] # "-"

\* C10: the record define returns is the one it stores; each of version,
\* props, styles, methods, events has the value the definition supplies
\* (methods as source text) or else its default, and methods is present.
C10_DefaultFilling ==
    last.op = "define" =>
        LET d == last.input
            r == last.value
        IN  /\ store[last.name] = r
            /\ r.version = (IF Has(d, "version") THEN d.version ELSE "1.0.0")
            /\ r.props = (IF Has(d, "props") THEN d.props ELSE <<>>)
            /\ r.styles = (IF Has(d, "styles") THEN d.styles ELSE "")
            /\ Has(r, "methods")
            /\ r.methods = (IF Has(d, "methods")
                            THEN serializeMethods(d.methods) ELSE EmptyObject)
            /\ r.events = (IF Has(d, "events") THEN d.events ELSE <<>>)

\* C11: when the script of a definition registers a class, that class
\* observes the attributes the adapter's class observes, in the same order,
\* and after every event delivered to an instance of each the two hold the
\* same props and state and show the same content.
C11_ScriptEquivalence ==
    peer.ref # "none" =>
        /\ observedAttributes(peer.definition) = observedAttributes(el.definition)
        /\ el.events > 0 =>
               /\ peer.props = el.props
               /\ peer.state = el.state
               /\ peer.content = el.content

\* C12: a document export (no type, or type json) of a name in the
\* Definition Store returns an envelope of type json whose data is the
\* stored record plus the export metadata and whose usage text has the
\* name and a sample attribute name="value" for every prop of the record.
C12_DocumentMode ==
    (/\ last.op = "export"
     /\ last.name \in DOMAIN store
     /\ (Has(last.options, "type") => last.options.type = "json"))
    => /\ last.outcome = "ok"
       /\ last.value.type = "json"
       /\ last.value.data =
              Spread(store[last.name],
                     [exportedAt |-> now, exportOptions |-> last.options])
       /\ last.value.usage.name = last.name
       /\ Has(store[last.name], "props")
       /\ \A i \in 1..Len(store[last.name].props) :
              \E j \in 1..Len(last.value.usage.sample) :
                  last.value.usage.sample[j] =
                      <<store[last.name].props[i], "=\"value\"">>

\* C13: a define or import under a name already in the Definition Store
\* puts the new record in the store and leaves the live instance as it is;
\* the instance keeps the definition of the class it was created from, that
\* class stays the one registered, every later render on an attribute change
\* is the old definition's template applied to its props and state, and
\* every later method call does what the old definition's method does.
C13_Redefinition ==
    [][/\ (/\ last' # last
           /\ last'.op \in {"define", "import"}
           /\ last'.outcome = "ok"
           /\ last'.name \in DOMAIN store)
          => /\ store'[last'.name] =
                    (IF last'.op = "define" THEN last'.value
                     ELSE last'.input.value)
             /\ el' = el
             /\ shared' = shared
       /\ (el.ref # "none")
          => /\ el'.definition = el.definition
             /\ el'.definition = elements'[el.tag].definition
             /\ (el'.events > el.events /\ el'.renders > el.renders
                 /\ el'.lastEvent.kind = "attribute")
                => el'.content = Rendered(el.definition, el'.props, el'.state)
             /\ (el'.events > el.events /\ el'.lastEvent.kind = "method")
                => el'.state =
                       ApplyEffect(el, el.definition.methods[el'.lastEvent.name].effect).state]_vars

\* C13 witness: a definition was put in the store under the name of a
\* connected instance that was created from another definition
C13_Witness ==
    /\ last.op = "define"
    /\ last.withLive
    /\ last.storeChanged
    /\ el.connected
    /\ store[el.tag].template # FunctionToString(el.definition.template)

\* C14: when the instance is inserted, every declared prop gets the value
\* of the attribute of its name, or the empty string when that attribute is
\* missing; the content is rendered from those props and the state as it
\* was; then the mounted hook runs if there is one; and the hook has run
\* exactly once in the life of the instance, whatever came before.
C14_ConnectOnce ==
    [][(el'.events > el.events /\ el'.lastEvent.kind = "connected")
       => LET observed == observedAttributes(el.definition)
          IN  /\ \A i \in 1..Len(observed) :
                     el'.props[observed[i]] =
                         (IF Has(el.attributes, observed[i])
                          THEN el.attributes[observed[i]] ELSE "")
              /\ el'.content = Rendered(el.definition, el'.props, el.state)
              /\ el'.state =
                     (IF Has(el.definition, "mounted")
                      THEN ApplyEffect(el, el.definition.mounted.effect).state
                      ELSE el.state)
              /\ el'.mountedCalls =
                     (IF Has(el.definition, "mounted") THEN 1 ELSE 0)]_vars

\* C15: setState(partial), called by the page or by a method, leaves a
\* state that has the value of partial for each key of partial and the old
\* value for every other key, changes no prop, and renders exactly once,
\* from the merged state.
C15_StateUpdate ==
    [][(/\ el'.events > el.events
        /\ \/ el'.lastEvent.kind = "setState"
           \/ /\ el'.lastEvent.kind = "method"
              /\ el.definition.methods[el'.lastEvent.name].effect = "setState:count")
       => LET partial == IF el'.lastEvent.kind = "setState"
                         THEN el'.lastEvent.new ELSE [count |-> "1"]
          IN  /\ DOMAIN el'.state = DOMAIN el.state \cup DOMAIN partial
              /\ \A k \in DOMAIN el'.state :
                     el'.state[k] = (IF k \in DOMAIN partial
                                     THEN partial[k] ELSE el.state[k])
              /\ el'.props = el.props
              /\ el'.renders = el.renders + 1
              /\ el'.content = Rendered(el.definition, el.props, el'.state)]_vars

\* C15 witness: setState with a new key was called on a counter, which
\* keeps its count, has the new key and shows the count it kept
C15_Witness ==
    /\ el.lastEvent.kind = "setState"
    /\ DOMAIN el.lastEvent.new = {"label"}
    /\ DOMAIN el.state = {"count", "label"}
    /\ el.state.label = "x"
    /\ el.renders >= 1
    /\ \E i \in 1..Len(el.content) : el.content[i] = el.state.count

\* The complete output for a definition: the style block when styles are
\* not empty, then the markup of the template
FullOutput(definition, props, state) ==
    (IF Has(definition, "styles") /\ definition.styles # ""
     THEN <<"<style>", definition.styles, "</style>">> ELSE <<>>)
    \o Call(definition.template, props, state)

C17_StateIsolation ==
    [][/\ (peer.ref # "none" /\ el'.events > el.events) => peer'.state = peer.state
       /\ (peer.ref # "none" /\ peer'.events > peer.events) => el'.state = el.state
       /\ shared' = InitialStateOf(el.definition)
       /\ (peer.ref = "none" /\ peer'.ref # "none")
          => peer'.state = InitialStateOf(el.definition)]_vars

\* C18: every entry of the Definition Store is kept under the name field
\* of its own record; the record define returns has the name and the
\* creation time of the call whatever extra keys the definition has, and
\* carries every extra key that is no reserved name with its value.
C18_KeyMatchesName ==
    /\ \A n \in DOMAIN store : Has(store[n], "name") /\ store[n].name = n
    /\ last.op = "define" =>
           /\ last.value.name = last.name
           /\ last.value.created = now
           /\ \A k \in DOMAIN last.input \ (ReservedKeys \cup {"name", "created"}) :
                  Has(last.value, k) /\ last.value[k] = last.input[k]

\* C19: every name in the Definition Store is registered in the element
\* registry, and a define or import that throws leaves the Definition Store
\* as it was.
C19_StoreRegistryConsistent ==
    /\ \A n \in DOMAIN store : n \in DOMAIN elements
    /\ (last.op \in {"define", "import"} /\ last.outcome = "error")
       => ~last.storeChanged

====
